---------------------------- MODULE Spec2Model ----------------------------
(***************************************************************************)
(* PDFTools-Bot: the per-user session state machine and the per-operation  *)
(* temp-directory lifecycle of the two revisions of the bot, src/bot.py    *)
(* (long polling) and src/main.py (webhook).                               *)
(*                                                                         *)
(* One action is one handler invocation, run to completion: the telegram   *)
(* Application awaits a handler before it dequeues the next update.  Every *)
(* awaited collaborator call of a handler is a numbered step, and the      *)
(* input `fail` names the step that raises (0: none does).                 *)
(*                                                                         *)
(* A file_id is modelled by the content it resolves to: an image by its    *)
(* name, a PDF by its sequence of pages.  A page is <<"img", i, 1>> (image *)
(* i drawn on a page of its size) or <<"doc", d, n>> (page n of the        *)
(* uploaded document d).                                                   *)
(***************************************************************************)
EXTENDS Integers, Sequences, FiniteSets, TLC

VARIABLES
    rev,            \* which revision runs: "bot" (src/bot.py) or "main" (src/main.py)
    user_sessions,  \* the dict user_sessions: user id -> session dict
    workspaces,     \* the temp directories that exist
    last,           \* the handler invocation that just ended: its event and what it did
    split_src       \* <<op, text, X>> while the latest event is the split command op
                    \* (sent as text) on the current PDF X or the event after it,
                    \* else << >>

vars == <<rev, user_sessions, workspaces, last, split_src>>

--------------------------------------------------------------------------
(* Bounds of the model *)

\* images is capped at this length (the code has no cap)
MaxImages == 2
\* pdfs is capped at this length (main.py appends without a cap)
MaxPdfs == 2
\* a PDF artifact has at most this many pages
MaxPages == 2

Revisions == {"bot", "main"}
Users == {"u1"}
ImageIds == {"a", "b"}
DocIds == {"B"}

\* the page numbers of the uploaded document d: "B" has two pages
PagesOfDoc(d) == IF d = "A" THEN <<1>> ELSE <<1, 2>>
DocPdf(d) == [n \in 1..Len(PagesOfDoc(d)) |-> <<"doc", d, n>>]

--------------------------------------------------------------------------
(* Python dict and list operations *)

EmptyDict == << >>
DictSet(d, k, v) == (k :> v) @@ d
DictPop(d, k) == [x \in (DOMAIN d) \ {k} |-> d[x]]
DictGet(d, k, default) == IF k \in DOMAIN d THEN d[k] ELSE default
setdefault(d, k, v) == IF k \in DOMAIN d THEN d ELSE DictSet(d, k, v)

Last(s) == s[Len(s)]

--------------------------------------------------------------------------
(* The session store *)

\* a fault: user_sessions[user_id] = {...defaults...} on every call
ensure_user_session_installing(us, u) ==
    (u :> [images |-> << >>, pdfs |-> << >>,
           collecting_images |-> FALSE, collecting_pdfs |-> FALSE]) @@ us

\* user_sessions after ensure_user_session(u); the session returned is its [u]
ensure_user_session(us, u) ==
    LET s0 == DictGet(us, u, EmptyDict)
        s1 == setdefault(s0, "images", << >>)
        s2 == setdefault(s1, "pdfs", << >>)
        s3 == setdefault(s2, "collecting_images", FALSE)
        s4 == setdefault(s3, "collecting_pdfs", FALSE)
    IN  DictSet(us, u, s4)

--------------------------------------------------------------------------
(* Document helpers *)

\* a fault: the pages are drawn from the last image to the first
RECURSIVE images_to_pdf_reversed(_)
images_to_pdf_reversed(image_paths) ==
    IF image_paths = << >> THEN << >>
    ELSE images_to_pdf_reversed(Tail(image_paths)) \o <<<<"img", Head(image_paths), 1>>>>

\* one page per image, in the order of image_paths
RECURSIVE images_to_pdf_reportlab(_)
images_to_pdf_reportlab(image_paths) ==
    IF image_paths = << >> THEN << >>
    ELSE <<<<"img", Head(image_paths), 1>>>> \o images_to_pdf_reportlab(Tail(image_paths))

\* a fault: the PDFs of paths are written from the last to the first
RECURSIVE merge_pdfs_reversed(_)
merge_pdfs_reversed(paths) ==
    IF paths = << >> THEN << >>
    ELSE merge_pdfs_reversed(Tail(paths)) \o Head(paths)

\* every page of every PDF of paths, in the order of paths
RECURSIVE merge_pdfs(_)
merge_pdfs(paths) ==
    IF paths = << >> THEN << >>
    ELSE Head(paths) \o merge_pdfs(Tail(paths))

\* a fault: `if i in pages` for `if i+1 in pages`, i counting from 0
RECURSIVE bot_split_pdf_zero_based(_, _, _)
bot_split_pdf_zero_based(pdf, pages, i) ==
    IF i > Len(pdf) THEN << >>
    ELSE (IF i - 1 \in pages THEN << <<pdf[i]>> >> ELSE << >>)
         \o bot_split_pdf_zero_based(pdf, pages, i + 1)

\* bot.py: one single-page PDF per page i of pdf with i in pages
RECURSIVE bot_split_pdf_from(_, _, _)
bot_split_pdf_from(pdf, pages, i) ==
    IF i > Len(pdf) THEN << >>
    ELSE (IF i \in pages THEN << <<pdf[i]>> >> ELSE << >>)
         \o bot_split_pdf_from(pdf, pages, i + 1)

bot_split_pdf(pdf, pages) == bot_split_pdf_from(pdf, pages, 1)

\* reader.pages[p] with Python's indexing: p is 0-based, -1 is the last page
PageAt(pdf, p) == IF p < 0 THEN pdf[Len(pdf) + p + 1] ELSE pdf[p + 1]

Min(a, b) == IF a <= b THEN a ELSE b

\* main.py: the pages range(s-1, min(e, len)) of pdf
RangePages(pdf, s, e) ==
    LET hi == Min(e, Len(pdf))
        n == IF hi > s - 1 THEN hi - (s - 1) ELSE 0
    IN  [k \in 1..n |-> PageAt(pdf, s - 1 + (k - 1))]

\* main.py: reader.pages[-1] raises IndexError on a PDF of no pages
split_pdf_raises(pdf, page_ranges) ==
    \E i \in 1..Len(page_ranges) : page_ranges[i][1] = 0 /\ Len(pdf) = 0

\* main.py: one PDF per range (s, e) of page_ranges
RECURSIVE main_split_pdf(_, _)
main_split_pdf(pdf, page_ranges) ==
    IF page_ranges = << >> THEN << >>
    ELSE << RangePages(pdf, Head(page_ranges)[1], Head(page_ranges)[2]) >>
         \o main_split_pdf(pdf, Tail(page_ranges))

--------------------------------------------------------------------------
(* Text: a message text is a sequence of characters; a menu label (an emoji
   and a caption, which holds no '-' and no ',') is one symbol *)

CANCEL == <<"Cancel">>
ADD_IMAGE == <<"Add Image">>
CREATE_PDF == <<"Create PDF">>
ADD_PDF == <<"Add PDF">>
MERGE_PDFS == <<"Merge PDFs">>
SPLIT_PDF == <<"Split PDF">>
EXTRACT_TEXT == <<"Extract Text">>
PDF_TO_WORD == <<"PDF -> Word">>

Labels == {CANCEL, ADD_IMAGE, CREATE_PDF, ADD_PDF, MERGE_PDFS, SPLIT_PDF,
           EXTRACT_TEXT, PDF_TO_WORD}

Digits == <<"0", "1", "2", "3", "4", "5", "6", "7", "8", "9">>
IsDigit(c) == \E i \in 1..Len(Digits) : Digits[i] = c
DigitVal(c) == (CHOOSE i \in 1..Len(Digits) : Digits[i] = c) - 1

Contains(text, c) == \E i \in 1..Len(text) : text[i] = c

\* str.split(sep): the pieces of text between the separators
RECURSIVE SplitFrom(_, _, _)
SplitFrom(text, sep, piece) ==
    IF text = << >> THEN <<piece>>
    ELSE IF Head(text) = sep THEN <<piece>> \o SplitFrom(Tail(text), sep, << >>)
    ELSE SplitFrom(Tail(text), sep, Append(piece, Head(text)))

Split(text, sep) == SplitFrom(text, sep, << >>)

\* int(s) succeeds on a non-empty run of digits
IsInt(s) == s # << >> /\ \A i \in 1..Len(s) : IsDigit(s[i])

RECURSIVE IntFrom(_, _)
IntFrom(s, acc) ==
    IF s = << >> THEN acc ELSE IntFrom(Tail(s), 10 * acc + DigitVal(Head(s)))

Int_(s) == IntFrom(s, 0)

\* s, e = part.split("-"); (int(s), int(e)) raises unless there are two integers
PartOk(part) ==
    LET se == Split(part, "-")
    IN  Len(se) = 2 /\ IsInt(se[1]) /\ IsInt(se[2])

PartRange(part) ==
    LET se == Split(part, "-") IN <<Int_(se[1]), Int_(se[2])>>

RangesOk(text) ==
    LET parts == Split(text, ",") IN \A i \in 1..Len(parts) : PartOk(parts[i])

ParseRanges(text) ==
    LET parts == Split(text, ",") IN [i \in 1..Len(parts) |-> PartRange(parts[i])]

--------------------------------------------------------------------------
(* Text extraction and the Word document *)

\* the n characters of a page of running text
RunningText(n) == [i \in 1..n |-> Digits[(i % 10) + 1]]

\* page.extract_text(): a document page carries its name, a page of running
\* text <<"text", n, k>> its n characters, an image page no text
PageText(page) ==
    IF page[1] = "doc" THEN <<page[2], Digits[page[3] + 1]>>
    ELSE IF page[1] = "text" THEN RunningText(page[2])
    ELSE << >>

RECURSIVE bot_extract_text_from_pdf(_)
bot_extract_text_from_pdf(pdf) ==
    IF pdf = << >> THEN << >>
    ELSE PageText(Head(pdf)) \o <<"\n">> \o bot_extract_text_from_pdf(Tail(pdf))

RECURSIVE main_extract_text_from_pdf(_)
main_extract_text_from_pdf(pdf) ==
    IF pdf = << >> THEN << >>
    ELSE (IF PageText(Head(pdf)) # << >> THEN PageText(Head(pdf)) \o <<"\n">> ELSE << >>)
         \o main_extract_text_from_pdf(Tail(pdf))

\* not t.strip()
IsBlank(t) == \A i \in 1..Len(t) : t[i] \in {"\n", " "}

RECURSIVE NonBlank(_)
NonBlank(lines) ==
    IF lines = << >> THEN << >>
    ELSE (IF IsBlank(Head(lines)) THEN << >> ELSE <<Head(lines)>>) \o NonBlank(Tail(lines))

bot_pdf_to_word(pdf) == <<"docx", <<bot_extract_text_from_pdf(pdf)>> >>
main_pdf_to_word(pdf) == <<"docx", NonBlank(Split(main_extract_text_from_pdf(pdf), "\n"))>>

\* the length of one delivered message of extracted text
CHUNK == 4000

\* the heading bot.py puts before the extracted text, character by character
\* (the first is the page emoji)
EXTRACTED_TEXT ==
    <<"#", " ", "E", "x", "t", "r", "a", "c", "t", "e", "d", " ",
      "t", "e", "x", "t", ":", "\n">>

\* t[i:i+CHUNK] for i in range(0, len(t), CHUNK)
Chunks(t) ==
    [k \in 1..((Len(t) + CHUNK - 1) \div CHUNK) |->
        SubSeq(t, (k - 1) * CHUNK + 1, Min(k * CHUNK, Len(t)))]

--------------------------------------------------------------------------
(* Running a handler: its steps in program order.  A step is
   <<kind, tag, body>>: "reply" (a message to the user: tag names it, body is
   its text), "mkdtemp", "download" (get_file and download_to_drive),
   "transform" (the document library), "archive" (send to CHANNEL_ID),
   "deliver" (send the document to the user's chat) and "commit" (the
   assignments to the session). *)

Fallible == {"reply", "chat_action", "download", "transform", "archive", "deliver"}

Reply(tag) == <<"reply", tag, << >> >>
ReplyText(tag, body) == <<"reply", tag, body>>
Step(kind) == <<kind, "", << >> >>

\* one step of `kind` per element of s
Each(kind, s) == [i \in 1..Len(s) |-> Step(kind)]

\* `fail` is 0 or the number of a step that can raise
CanFail(steps, fail) ==
    fail = 0 \/ (fail \in 1..Len(steps) /\ steps[fail][1] \in Fallible)

\* the steps that completed
Done(steps, fail) == IF fail = 0 THEN steps ELSE SubSeq(steps, 1, fail - 1)

Did(done, kind) == \E i \in 1..Len(done) : done[i][1] = kind
Count(done, kind) == Cardinality({i \in 1..Len(done) : done[i][1] = kind})

RECURSIVE Replies(_)
Replies(done) ==
    IF done = << >> THEN << >>
    ELSE (IF Head(done)[1] = "reply" THEN <<<<Head(done)[2], Head(done)[3]>>>> ELSE << >>)
         \o Replies(Tail(done))

\* the directory tempfile.mkdtemp returns
TmpDir(u) == <<"tmp", u>>

\* a fault: rmtree as the last statement of the try body, with no finally
TryWithoutFinally(ws, tmp_dir, raised) == IF raised THEN ws ELSE ws \ {tmp_dir}

\* try: ... finally: shutil.rmtree(tmp_dir)
TryFinally(ws, tmp_dir, raised) == ws \ {tmp_dir}

\* What a handler invocation leaves behind.  us: user_sessions when the steps
\* start; committed: the session the "commit" step assigns; arts: the
\* artifacts the transform makes, delivered one per "deliver" step.
Outcome(us, ws, u, steps, fail, committed, arts) ==
    LET done == Done(steps, fail)
    IN  [ sessions  |-> IF Did(done, "commit") THEN DictSet(us, u, committed) ELSE us,
          ws        |-> IF Did(done, "mkdtemp")
                        THEN TryFinally(ws \cup {TmpDir(u)}, TmpDir(u), fail # 0)
                        ELSE ws,
          made      |-> IF Did(done, "transform") THEN arts ELSE << >>,
          archived  |-> SubSeq(arts, 1, Min(Len(arts), Count(done, "archive"))),
          delivered |-> SubSeq(arts, 1, Min(Len(arts), Count(done, "deliver"))),
          replies   |-> Replies(done),
          steps     |-> steps,
          fail      |-> fail,
          raised    |-> fail # 0 ]

\* a fault: the temp directory made before the precondition is looked at
SimpleAfterMkdtemp(us, ws, u, steps, fail) ==
    Outcome(us, ws, u, <<<<"mkdtemp", "", << >> >>>> \o steps, fail, us[u], << >>)

\* a handler that only replies (a precondition warning, a prompt)
Simple(us, ws, u, steps, fail) == Outcome(us, ws, u, steps, fail, us[u], << >>)

\* the outcome o, named after the branch of the handler that ran
Op(name, o) == [op |-> name] @@ o

\* except Exception: reply with the failure; the handler returns normally
Caught(o, reply) == [o EXCEPT !.raised = FALSE, !.replies = Append(@, reply)]

\* if not session.get(key): a missing key, an empty list and False are falsy
Falsy(session, key) ==
    \/ key \notin DOMAIN session
    \/ IF key \in {"images", "pdfs"} THEN session[key] = << >> ELSE session[key] = FALSE

--------------------------------------------------------------------------
(* src/bot.py: text_handler.  Each branch takes user_sessions as
   ensure_user_session(user_id) left it. *)

bot_Cancel(us, ws, u, fail) ==
    Outcome(us, ws, u, <<Step("commit"), Reply("cleared")>>, fail, EmptyDict, << >>)

\* a fault: session["images"] = [] in place of session.setdefault("images", [])
bot_AddImage_clearing(us, ws, u, fail) ==
    Outcome(us, ws, u, <<Step("commit"), Reply("send images")>>, fail,
            DictSet(DictSet(us[u], "collecting_images", TRUE), "images", << >>), << >>)

bot_AddImage(us, ws, u, fail) ==
    Outcome(us, ws, u, <<Step("commit"), Reply("send images")>>, fail,
            setdefault(DictSet(us[u], "collecting_images", TRUE), "images", << >>), << >>)

bot_CreatePDF_steps(images) ==
    <<Reply("progress"), Step("mkdtemp")>> \o Each("download", images)
    \o <<Step("transform"), Step("archive"), Step("commit"), Step("deliver"), Reply("ok")>>

\* a fault: session["pdfs"].append(pdf_file_id) in place of the assignment
bot_CreatePDF_appending(us, ws, u, fail) ==
    LET session == us[u]
    IN  IF Falsy(session, "images")
        THEN Simple(us, ws, u, <<Reply("warning")>>, fail)
        ELSE LET pdf_file_id == images_to_pdf_reportlab(session["images"])
                 s1 == DictSet(session, "pdfs", Append(session["pdfs"], pdf_file_id))
                 s2 == DictSet(s1, "images", << >>)
                 s3 == DictSet(s2, "collecting_images", FALSE)
             IN  Outcome(us, ws, u, bot_CreatePDF_steps(session["images"]), fail,
                         s3, <<pdf_file_id>>)

bot_CreatePDF(us, ws, u, fail) ==
    LET session == us[u]
    IN  IF Falsy(session, "images")
        THEN Simple(us, ws, u, <<Reply("warning")>>, fail)
        ELSE LET temp_paths == session["images"]
                 pdf_file_id == images_to_pdf_reportlab(temp_paths)
                 s1 == DictSet(session, "pdfs", <<pdf_file_id>>)
                 s2 == DictSet(s1, "images", << >>)
                 s3 == DictSet(s2, "collecting_images", FALSE)
             IN  Outcome(us, ws, u, bot_CreatePDF_steps(session["images"]), fail,
                         s3, <<pdf_file_id>>)

bot_AddPDF(us, ws, u, fail) ==
    Outcome(us, ws, u, <<Step("commit"), Reply("send pdf")>>, fail,
            DictSet(DictSet(us[u], "collecting_pdfs", TRUE), "pdfs", << >>), << >>)

bot_MergePDFs_steps(pdfs) ==
    <<Step("mkdtemp")>> \o Each("download", pdfs)
    \o <<Step("transform"), Step("archive"), Step("commit"), Step("deliver"), Reply("ok")>>

bot_MergePDFs(us, ws, u, fail) ==
    LET session == us[u]
    IN  IF Len(DictGet(session, "pdfs", << >>)) < 2
        THEN Simple(us, ws, u, <<Reply("warning")>>, fail)
        ELSE LET pdf_paths == session["pdfs"]
                 merged_fid == merge_pdfs(pdf_paths)
             IN  Outcome(us, ws, u, bot_MergePDFs_steps(session["pdfs"]), fail,
                         DictSet(session, "pdfs", <<merged_fid>>), <<merged_fid>>)

\* for fpath in output_files: send to the channel, then to the user
RECURSIVE bot_SplitPDF_loop(_)
bot_SplitPDF_loop(output_files) ==
    IF output_files = << >> THEN << >>
    ELSE <<Step("archive"), Step("deliver")>> \o bot_SplitPDF_loop(Tail(output_files))

bot_SplitPDF_steps(output_files) ==
    <<Step("mkdtemp"), Step("download"), Step("transform")>>
    \o bot_SplitPDF_loop(output_files) \o <<Step("commit"), Reply("ok")>>

bot_SplitPDF(us, ws, u, fail) ==
    LET session == us[u]
    IN  IF Falsy(session, "pdfs")
        THEN Simple(us, ws, u, <<Reply("warning")>>, fail)
        ELSE LET fid == Last(session["pdfs"])
                 pages_to_split == 1..Len(fid)
                 split_fids == bot_split_pdf(fid, pages_to_split)
             IN  Outcome(us, ws, u, bot_SplitPDF_steps(split_fids), fail,
                         DictSet(session, "pdfs", split_fids), split_fids)

bot_ExtractText(us, ws, u, fail) ==
    LET session == us[u]
    IN  IF Falsy(session, "pdfs")
        THEN Simple(us, ws, u, <<Reply("warning")>>, fail)
        ELSE LET fid == Last(session["pdfs"])
                 text_content == bot_extract_text_from_pdf(fid)
                 reply == IF IsBlank(text_content) THEN Reply("no text")
                          ELSE ReplyText("text",
                                         EXTRACTED_TEXT \o
                                         SubSeq(text_content, 1,
                                                Min(CHUNK, Len(text_content))))
             IN  Outcome(us, ws, u,
                         <<Step("mkdtemp"), Step("download"), Step("transform"), reply>>,
                         fail, session, << >>)

\* a fault: the converted PDF is taken out of the session
bot_PDFtoWord_consuming(us, ws, u, fail) ==
    LET session == us[u]
    IN  IF Falsy(session, "pdfs")
        THEN Simple(us, ws, u, <<Reply("warning")>>, fail)
        ELSE Outcome(us, ws, u,
                     <<Step("mkdtemp"), Step("download"), Step("transform"),
                       Step("archive"), Step("commit"), Step("deliver"), Reply("ok")>>,
                     fail, DictSet(session, "pdfs", << >>),
                     <<bot_pdf_to_word(Last(session["pdfs"]))>>)

bot_PDFtoWord(us, ws, u, fail) ==
    LET session == us[u]
    IN  IF Falsy(session, "pdfs")
        THEN Simple(us, ws, u, <<Reply("warning")>>, fail)
        ELSE LET fid == Last(session["pdfs"])
                 word_fid == bot_pdf_to_word(fid)
             IN  Outcome(us, ws, u,
                         <<Step("mkdtemp"), Step("download"), Step("transform"),
                           Step("archive"), Step("deliver"), Reply("ok")>>,
                         fail, session, <<word_fid>>)

bot_text_handler(us0, ws, u, text, fail) ==
    LET us == ensure_user_session(us0, u)
    IN  IF text = CANCEL THEN Op("Cancel", bot_Cancel(us, ws, u, fail))
        ELSE IF text = ADD_IMAGE THEN Op("Add Image", bot_AddImage(us, ws, u, fail))
        ELSE IF text = CREATE_PDF THEN Op("Create PDF", bot_CreatePDF(us, ws, u, fail))
        ELSE IF text = ADD_PDF THEN Op("Add PDF", bot_AddPDF(us, ws, u, fail))
        ELSE IF text = MERGE_PDFS THEN Op("Merge PDFs", bot_MergePDFs(us, ws, u, fail))
        ELSE IF text = SPLIT_PDF THEN Op("Split PDF", bot_SplitPDF(us, ws, u, fail))
        ELSE IF text = EXTRACT_TEXT THEN Op("Extract Text", bot_ExtractText(us, ws, u, fail))
        ELSE IF text = PDF_TO_WORD THEN Op("PDF -> Word", bot_PDFtoWord(us, ws, u, fail))
        ELSE Op("menu", Simple(us, ws, u, <<Reply("menu")>>, fail))

bot_start(us0, ws, u, fail) ==
    Op("start", Simple(ensure_user_session(us0, u), ws, u, <<Reply("welcome")>>, fail))

(* src/bot.py: the upload handlers.  doc is << >> (no document) or
   <<mime_type, content>>. *)

bot_pdf_handler(us0, ws, u, doc, fail) ==
    LET us == ensure_user_session(us0, u)
        session == us[u]
    IN  IF Falsy(session, "collecting_pdfs")
        THEN Simple(us, ws, u, <<Reply("warning")>>, fail)
        ELSE IF doc = << >> \/ doc[1] # "application/pdf"
        THEN Simple(us, ws, u, <<Reply("invalid")>>, fail)
        ELSE LET pdf_file_id == doc[2]
                 s1 == DictSet(session, "pdfs", <<pdf_file_id>>)
                 s2 == DictSet(s1, "collecting_pdfs", FALSE)
             IN  Outcome(us, ws, u, <<Step("archive"), Step("commit"), Reply("saved")>>,
                         fail, s2, <<pdf_file_id>>)

bot_photo_handler(us0, ws, u, photo, fail) ==
    LET us1 == ensure_user_session(us0, u)
        \* if not session.get("collecting_images"): session["collecting_images"] = True
        us == IF Falsy(us1[u], "collecting_images")
              THEN DictSet(us1, u, DictSet(us1[u], "collecting_images", TRUE))
              ELSE us1
        session == us[u]
        channel_file_id == photo
        appended == DictSet(session, "images",
                            Append(DictGet(session, "images", << >>), channel_file_id))
        steps == <<Step("chat_action"), Step("archive"), Step("commit"), Reply("saved")>>
        o == Outcome(us, ws, u, steps, fail, appended, <<channel_file_id>>)
    IN  \* send_chat_action is outside the try; the rest is inside it
        IF fail > 1 THEN Caught(o, <<"failed", << >> >>) ELSE o

bot_document_handler(us0, ws, u, doc, fail) ==
    LET us == ensure_user_session(us0, u)
        session == us[u]
    IN  IF doc = << >> THEN Simple(us, ws, u, << >>, fail)
        ELSE IF doc[1] \in {"image/jpeg", "image/png"}
        THEN IF Falsy(session, "collecting_images")
             THEN Simple(us, ws, u, <<Reply("warning")>>, fail)
             ELSE LET channel_file_id == doc[2]
                      appended == DictSet(session, "images",
                                          Append(DictGet(session, "images", << >>),
                                                 channel_file_id))
                      o == Outcome(us, ws, u,
                                   <<Step("archive"), Step("commit"), Reply("saved")>>,
                                   fail, appended, <<channel_file_id>>)
                  IN  IF fail > 0 THEN Caught(o, <<"failed", << >> >>) ELSE o
        ELSE IF doc[1] = "application/pdf" THEN bot_pdf_handler(us, ws, u, doc, fail)
        ELSE Simple(us, ws, u, << >>, fail)

--------------------------------------------------------------------------
(* src/main.py: text_handler *)

\* a fault: Cancel replies and leaves the session in the store
main_Cancel_without_pop(us, ws, u, fail) ==
    Outcome(us, ws, u, <<Reply("cleared")>>, fail, EmptyDict, << >>)

\* a fault: user_sessions.clear() in place of user_sessions.pop(user_id, None)
main_Cancel_clearing_all(us, ws, u, fail) ==
    Outcome(EmptyDict, ws, u, <<Reply("cleared")>>, fail, EmptyDict, << >>)

\* user_sessions.pop(user_id, None), then the reply
main_Cancel(us, ws, u, fail) ==
    Outcome(DictPop(us, u), ws, u, <<Reply("cleared")>>, fail, EmptyDict, << >>)

\* a fault: Add Image starts afresh and drops awaiting_split_ranges
main_AddImage_ending_await(us, ws, u, fail) ==
    Outcome(us, ws, u, <<Step("commit"), Reply("send images")>>, fail,
            [k \in (DOMAIN us[u]) \ {"awaiting_split_ranges"} |->
                IF k = "collecting_images" THEN TRUE ELSE us[u][k]], << >>)

main_AddImage(us, ws, u, fail) ==
    Outcome(us, ws, u, <<Step("commit"), Reply("send images")>>, fail,
            DictSet(us[u], "collecting_images", TRUE), << >>)

main_CreatePDF_steps(images) ==
    <<Reply("progress"), Step("mkdtemp")>> \o Each("download", images)
    \o <<Step("transform"), Step("deliver"), Step("archive"), Step("commit")>>

main_CreatePDF(us, ws, u, fail) ==
    LET session == us[u]
    IN  IF Falsy(session, "images")
        THEN Simple(us, ws, u, <<Reply("warning")>>, fail)
        ELSE LET paths == session["images"]
                 file_id == images_to_pdf_reportlab(paths)
                 s1 == DictSet(session, "pdfs", Append(session["pdfs"], file_id))
                 s2 == DictSet(s1, "images", << >>)
                 s3 == DictSet(s2, "collecting_images", FALSE)
             IN  Outcome(us, ws, u, main_CreatePDF_steps(session["images"]), fail,
                         s3, <<file_id>>)

\* a fault: session["pdfs"] = [] on Add PDF, as bot.py has it
main_AddPDF_clearing(us, ws, u, fail) ==
    Outcome(us, ws, u, <<Step("commit"), Reply("send pdf")>>, fail,
            DictSet(DictSet(us[u], "collecting_pdfs", TRUE), "pdfs", << >>), << >>)

main_AddPDF(us, ws, u, fail) ==
    Outcome(us, ws, u, <<Step("commit"), Reply("send pdf")>>, fail,
            DictSet(us[u], "collecting_pdfs", TRUE), << >>)

main_MergePDFs_steps(pdfs) ==
    <<Reply("progress"), Step("mkdtemp")>> \o Each("download", pdfs)
    \o <<Step("transform"), Step("deliver"), Step("archive"), Step("commit")>>

\* a fault: the merged file is appended to pdfs, as Create PDF appends
main_MergePDFs_appending(us, ws, u, fail) ==
    LET session == us[u]
    IN  IF Falsy(session, "pdfs")
        THEN Simple(us, ws, u, <<Reply("warning")>>, fail)
        ELSE LET file_id == merge_pdfs(session["pdfs"])
             IN  Outcome(us, ws, u, main_MergePDFs_steps(session["pdfs"]), fail,
                         DictSet(session, "pdfs", Append(session["pdfs"], file_id)),
                         <<file_id>>)

main_MergePDFs(us, ws, u, fail) ==
    LET session == us[u]
    IN  IF Falsy(session, "pdfs")
        THEN Simple(us, ws, u, <<Reply("warning")>>, fail)
        ELSE LET local_paths == session["pdfs"]
                 file_id == merge_pdfs(local_paths)
             IN  Outcome(us, ws, u, main_MergePDFs_steps(session["pdfs"]), fail,
                         DictSet(session, "pdfs", <<file_id>>), <<file_id>>)

main_SplitPDF(us, ws, u, fail) ==
    LET session == us[u]
    IN  IF Falsy(session, "pdfs")
        THEN Simple(us, ws, u, <<Reply("warning")>>, fail)
        ELSE Outcome(us, ws, u, <<Reply("prompt"), Step("commit")>>, fail,
                     DictSet(session, "awaiting_split_ranges", TRUE), << >>)

\* for outp in outs: send to the user, then to the channel
RECURSIVE main_SplitRanges_loop(_)
main_SplitRanges_loop(outs) ==
    IF outs = << >> THEN << >>
    ELSE <<Step("deliver"), Step("archive")>> \o main_SplitRanges_loop(Tail(outs))

main_SplitRanges_steps(outs) ==
    <<Reply("progress"), Step("mkdtemp"), Step("download"), Step("transform")>>
    \o main_SplitRanges_loop(outs) \o <<Step("commit")>>

\* the reply to the prompt: session.get("awaiting_split_ranges") and "-" in text
main_SplitRanges(us0, ws, u, text, fail) ==
    LET \* session.pop("awaiting_split_ranges", None)
        us == DictSet(us0, u, DictPop(us0[u], "awaiting_split_ranges"))
        session == us[u]
    IN  IF ~RangesOk(text)
        THEN Simple(us, ws, u, <<Reply("invalid")>>, fail)
        ELSE LET ranges == ParseRanges(text)
                 pdf_fid == Last(session["pdfs"])
                 uploaded == main_split_pdf(pdf_fid, ranges)
             IN  IF split_pdf_raises(pdf_fid, ranges)
                 THEN \* split_pdf raises unless an earlier step did
                      Outcome(us, ws, u, main_SplitRanges_steps(<< >>),
                              IF fail \in 1..3 THEN fail ELSE 4, session, << >>)
                 ELSE Outcome(us, ws, u, main_SplitRanges_steps(uploaded), fail,
                              DictSet(session, "pdfs", uploaded), uploaded)

\* one message per chunk of the text
main_ExtractText_replies(t) ==
    IF IsBlank(t) THEN <<Reply("no text")>>
    ELSE [k \in 1..Len(Chunks(t)) |-> ReplyText("text", Chunks(t)[k])]

main_ExtractText(us, ws, u, fail) ==
    LET session == us[u]
    IN  IF Falsy(session, "pdfs")
        THEN Simple(us, ws, u, <<Reply("warning")>>, fail)
        ELSE LET pdf_fid == Last(session["pdfs"])
                 t == main_extract_text_from_pdf(pdf_fid)
             IN  Outcome(us, ws, u,
                         <<Reply("progress"), Step("mkdtemp"), Step("download"),
                           Step("transform")>> \o main_ExtractText_replies(t),
                         fail, session, << >>)

main_PDFtoWord(us, ws, u, fail) ==
    LET session == us[u]
    IN  IF Falsy(session, "pdfs")
        THEN Simple(us, ws, u, <<Reply("warning")>>, fail)
        ELSE LET pdf_fid == Last(session["pdfs"])
             IN  Outcome(us, ws, u,
                         <<Reply("progress"), Step("mkdtemp"), Step("download"),
                           Step("transform"), Step("deliver")>>,
                         fail, session, <<main_pdf_to_word(pdf_fid)>>)

main_text_handler(us0, ws, u, text, fail) ==
    LET us == ensure_user_session(us0, u)
    IN  IF text = CANCEL THEN Op("Cancel", main_Cancel(us, ws, u, fail))
        ELSE IF text = ADD_IMAGE THEN Op("Add Image", main_AddImage(us, ws, u, fail))
        ELSE IF text = CREATE_PDF THEN Op("Create PDF", main_CreatePDF(us, ws, u, fail))
        ELSE IF text = ADD_PDF THEN Op("Add PDF", main_AddPDF(us, ws, u, fail))
        ELSE IF text = MERGE_PDFS THEN Op("Merge PDFs", main_MergePDFs(us, ws, u, fail))
        ELSE IF text = SPLIT_PDF THEN Op("Split PDF", main_SplitPDF(us, ws, u, fail))
        ELSE IF /\ ~Falsy(us[u], "awaiting_split_ranges")
                /\ text # << >>
                /\ Contains(text, "-")
        THEN Op("split ranges", main_SplitRanges(us, ws, u, text, fail))
        ELSE IF text = EXTRACT_TEXT THEN Op("Extract Text", main_ExtractText(us, ws, u, fail))
        ELSE IF text = PDF_TO_WORD THEN Op("PDF -> Word", main_PDFtoWord(us, ws, u, fail))
        ELSE Op("menu", Simple(us, ws, u, <<Reply("menu")>>, fail))

main_start_handler(us0, ws, u, fail) ==
    Op("start", Simple(ensure_user_session(us0, u), ws, u, <<Reply("welcome")>>, fail))

(* src/main.py: the upload handlers *)

\* a fault: the photo's own file id appended before the copy to the channel
main_photo_handler_storing_first(us0, ws, u, photo, fail) ==
    LET us == ensure_user_session(us0, u)
        session == us[u]
    IN  IF Falsy(session, "collecting_images")
        THEN Simple(us, ws, u, <<Reply("warning")>>, fail)
        ELSE Outcome(us, ws, u, <<Step("commit"), Step("archive"), Reply("saved")>>, fail,
                     DictSet(session, "images",
                             Append(DictGet(session, "images", << >>), photo)),
                     <<photo>>)

main_photo_handler(us0, ws, u, photo, fail) ==
    LET us == ensure_user_session(us0, u)
        session == us[u]
    IN  IF Falsy(session, "collecting_images")
        THEN Simple(us, ws, u, <<Reply("warning")>>, fail)
        ELSE Outcome(us, ws, u, <<Step("archive"), Step("commit"), Reply("saved")>>, fail,
                     DictSet(session, "images",
                             Append(DictGet(session, "images", << >>), photo)),
                     <<photo>>)

main_document_handler(us0, ws, u, doc, fail) ==
    LET us == ensure_user_session(us0, u)
        session == us[u]
    IN  IF doc = << >> THEN Simple(us, ws, u, << >>, fail)
        ELSE IF doc[1] = "application/pdf"
        THEN LET s1 == DictSet(session, "pdfs",
                               Append(DictGet(session, "pdfs", << >>), doc[2]))
                 s2 == DictSet(s1, "collecting_pdfs", FALSE)
             IN  Outcome(us, ws, u, <<Step("archive"), Step("commit"), Reply("saved")>>,
                         fail, s2, <<doc[2]>>)
        ELSE IF doc[1] \in {"image/jpeg", "image/png"}
        THEN IF Falsy(session, "collecting_images")
             THEN Simple(us, ws, u, <<Reply("warning")>>, fail)
             ELSE Outcome(us, ws, u, <<Step("archive"), Step("commit"), Reply("saved")>>,
                          fail,
                          DictSet(session, "images",
                                  Append(DictGet(session, "images", << >>), doc[2])),
                          <<doc[2]>>)
        ELSE Simple(us, ws, u, <<Reply("unsupported")>>, fail)

--------------------------------------------------------------------------
(* The dispatch loop: one update at a time, each handled to completion *)

text_handler(r, us, ws, u, text, fail) ==
    IF r = "bot" THEN bot_text_handler(us, ws, u, text, fail)
    ELSE main_text_handler(us, ws, u, text, fail)

photo_handler(r, us, ws, u, photo, fail) ==
    Op("photo", IF r = "bot" THEN bot_photo_handler(us, ws, u, photo, fail)
                ELSE main_photo_handler(us, ws, u, photo, fail))

\* the declared content type of a document
DocKind(doc) ==
    IF doc = << >> THEN "no document"
    ELSE IF doc[1] = "application/pdf" THEN "pdf document"
    ELSE IF doc[1] \in {"image/jpeg", "image/png"} THEN "image document"
    ELSE "other document"

document_handler(r, us, ws, u, doc, fail) ==
    Op(DocKind(doc), IF r = "bot" THEN bot_document_handler(us, ws, u, doc, fail)
                     ELSE main_document_handler(us, ws, u, doc, fail))

start(r, us, ws, u, fail) ==
    IF r = "bot" THEN bot_start(us, ws, u, fail) ELSE main_start_handler(us, ws, u, fail)

\* the texts a user sends that are no menu label
RangeText(s, e) == <<Digits[s + 1], "-", Digits[e + 1]>>

RECURSIVE SinglePagesText(_)
SinglePagesText(k) ==
    IF k = 1 THEN RangeText(1, 1) ELSE SinglePagesText(k - 1) \o <<",">> \o RangeText(k, k)

FreeTexts ==
    {RangeText(1, 2), RangeText(2, 1)}
    \cup {SinglePagesText(k) : k \in 1..MaxPages}
    \cup { <<"h", "i">>, <<"1", "-">> }

Texts == Labels \cup FreeTexts

\* the documents a user sends (filters.Document.ALL passes only messages
\* that carry one): a PDF, an image file, another file
Documents ==
    {<<"application/pdf", DocPdf(d)>> : d \in DocIds}
    \cup { <<"image/jpeg", "a">>, <<"image/png", "b">> }
    \cup { <<"text/plain", "x">> }

Images(session) == DictGet(session, "images", << >>)
Pdfs(session) == DictGet(session, "pdfs", << >>)

\* the model's caps on what the code lets grow without bound: a session past
\* them is reached, and no further update is taken from it
Bounded(session) ==
    /\ Len(Images(session)) <= MaxImages
    /\ Len(Pdfs(session)) <= MaxPdfs
    /\ \A i \in 1..Len(Pdfs(session)) : Len(Pdfs(session)[i]) <= MaxPages

\* no handler is executing: the loop waits for the next update
NoEvent ==
    [ handler |-> "none", op |-> "none", user |-> "", text |-> << >>, doc |-> << >>,
      fail |-> 0, pre |-> EmptyDict, made |-> << >>, archived |-> << >>,
      delivered |-> << >>, replies |-> << >>, steps |-> << >>, raised |-> FALSE ]

Event(handler, u, text, doc, pre, o) ==
    [ handler |-> handler, op |-> o.op, user |-> u, text |-> text, doc |-> doc,
      fail |-> o.fail, pre |-> pre, made |-> o.made, archived |-> o.archived,
      delivered |-> o.delivered, replies |-> o.replies, steps |-> o.steps,
      raised |-> o.raised ]

\* the event e is a split command that ran to its end: bot.py's Split PDF,
\* main.py's Split PDF (the prompt) and main.py's reply of ranges
SplitEvent(e) ==
    e.op \in {"Split PDF", "split ranges"} /\ e.fail = 0 /\ Did(e.steps, "commit")

Init ==
    /\ rev \in Revisions
    /\ user_sessions = EmptyDict
    /\ workspaces = {}
    /\ last = NoEvent
    /\ split_src = << >>

\* what the handler leaves: the store, the temp directories, the record of the event
Handled(handler, u, text, doc, o) ==
    LET pre == ensure_user_session(user_sessions, u)[u]
        e == Event(handler, u, text, doc, pre, o)
    IN  /\ CanFail(o.steps, o.fail)
        /\ user_sessions' = o.sessions
        /\ workspaces' = o.ws
        /\ last' = e
        /\ split_src' = IF SplitEvent(e) THEN <<e.op, text, Last(pre["pdfs"])>>
                        ELSE split_src
        /\ UNCHANGED rev

\* no handler is executing
Idle == last.handler = "none"

\* the handler has returned (or raised): the application takes the next update
NextUpdate ==
    /\ ~Idle
    /\ \A u \in DOMAIN user_sessions : Bounded(user_sessions[u])
    /\ last' = NoEvent
    /\ split_src' = IF SplitEvent(last) THEN split_src ELSE << >>
    /\ UNCHANGED <<rev, user_sessions, workspaces>>

MaxSteps(o) == Len(o.steps)

StartEvent(u) ==
    /\ Idle
    /\ \E fail \in 0..1 :
        Handled("start", u, << >>, << >>,
                start(rev, user_sessions, workspaces, u, fail))

TextEvent(u) ==
    /\ Idle
    /\ \E text \in Texts :
        \E fail \in 0..MaxSteps(text_handler(rev, user_sessions, workspaces, u, text, 0)) :
            Handled("text", u, text, << >>,
                    text_handler(rev, user_sessions, workspaces, u, text, fail))

PhotoEvent(u) ==
    /\ Idle
    /\ \E photo \in ImageIds :
        \E fail \in 0..MaxSteps(photo_handler(rev, user_sessions, workspaces, u, photo, 0)) :
            Handled("photo", u, << >>, <<"photo", photo>>,
                    photo_handler(rev, user_sessions, workspaces, u, photo, fail))

DocumentEvent(u) ==
    /\ Idle
    /\ \E doc \in Documents :
        \E fail \in 0..MaxSteps(document_handler(rev, user_sessions, workspaces, u, doc, 0)) :
            Handled("document", u, << >>, doc,
                    document_handler(rev, user_sessions, workspaces, u, doc, fail))

Next ==
    \/ \E u \in Users :
        \/ StartEvent(u)
        \/ TextEvent(u)
        \/ PhotoEvent(u)
        \/ DocumentEvent(u)
    \/ NextUpdate

Spec == Init /\ [][Next]_vars

--------------------------------------------------------------------------
(* Extract Text on PDFs of running text, around the length of one message:
   the session holds one uploaded PDF of one or two pages of text *)

TextLens == {CHUNK - 2, CHUNK - 1, CHUNK, CHUNK + 1}

TextPdfs ==
    { << <<"text", n, 1>> >> : n \in TextLens }
    \cup { << <<"text", n, 1>>, <<"text", m, 2>> >> : n \in TextLens, m \in TextLens }

ExtractInit ==
    /\ rev \in Revisions
    /\ \E u \in Users : \E pdf \in TextPdfs :
        user_sessions =
            DictSet(EmptyDict, u,
                    DictSet(ensure_user_session(EmptyDict, u)[u], "pdfs", <<pdf>>))
    /\ workspaces = {}
    /\ last = NoEvent
    /\ split_src = << >>

ExtractTextEvent(u) ==
    /\ Idle
    /\ \E fail \in 0..MaxSteps(text_handler(rev, user_sessions, workspaces, u,
                                             EXTRACT_TEXT, 0)) :
        Handled("text", u, EXTRACT_TEXT, << >>,
                text_handler(rev, user_sessions, workspaces, u, EXTRACT_TEXT, fail))

ExtractNext ==
    \/ \E u \in Users : ExtractTextEvent(u)
    \/ NextUpdate

SpecExtract == ExtractInit /\ [][ExtractNext]_vars

--------------------------------------------------------------------------
(* Two users on one store: user_sessions is keyed by from_user.id, and the
   updates of the two users arrive in any order, one handled at a time *)

TwoUsers == {"u1", "u2"}

\* the cap on the images and on the PDFs of each of the two sessions
MaxEach == 1

SharedTexts == Labels \cup {RangeText(1, 1)}
SharedPhotos == {"a"}
SharedDocuments ==
    {<<"application/pdf", DocPdf(d)>> : d \in DocIds} \cup { <<"text/plain", "x">> }

SharedTextEvent(u) ==
    /\ Idle
    /\ \E text \in SharedTexts :
        \E fail \in 0..MaxSteps(text_handler(rev, user_sessions, workspaces, u, text, 0)) :
            Handled("text", u, text, << >>,
                    text_handler(rev, user_sessions, workspaces, u, text, fail))

SharedPhotoEvent(u) ==
    /\ Idle
    /\ \E photo \in SharedPhotos :
        \E fail \in 0..MaxSteps(photo_handler(rev, user_sessions, workspaces, u, photo, 0)) :
            Handled("photo", u, << >>, <<"photo", photo>>,
                    photo_handler(rev, user_sessions, workspaces, u, photo, fail))

SharedDocumentEvent(u) ==
    /\ Idle
    /\ \E doc \in SharedDocuments :
        \E fail \in 0..MaxSteps(document_handler(rev, user_sessions, workspaces, u, doc, 0)) :
            Handled("document", u, << >>, doc,
                    document_handler(rev, user_sessions, workspaces, u, doc, fail))

SharedNextUpdate ==
    /\ \A u \in DOMAIN user_sessions :
          /\ Len(Images(user_sessions[u])) <= MaxEach
          /\ Len(Pdfs(user_sessions[u])) <= MaxEach
    /\ NextUpdate

SharedNext ==
    \/ \E u \in TwoUsers :
        \/ StartEvent(u)
        \/ SharedTextEvent(u)
        \/ SharedPhotoEvent(u)
        \/ SharedDocumentEvent(u)
    \/ SharedNextUpdate

SpecShared == Init /\ [][SharedNext]_vars

--------------------------------------------------------------------------
(* main.py from the moment Split PDF has been pressed on a session whose
   one PDF is an uploaded document, Split PDF not being pressed again: every
   reply of ranges in such a run answers that one press *)

\* the PDF that was last in pdfs when Split PDF was pressed
PressedPdf == DocPdf(CHOOSE d \in DocIds : TRUE)

AwaitInit ==
    /\ rev = "main"
    /\ \E u \in Users : \E images \in {<< >>} \cup {<<i>> : i \in ImageIds} :
        user_sessions =
            DictSet(EmptyDict, u,
                    [images |-> images, pdfs |-> <<PressedPdf>>,
                     collecting_images |-> images # << >>, collecting_pdfs |-> FALSE,
                     awaiting_split_ranges |-> TRUE])
    /\ workspaces = {}
    /\ last = NoEvent
    /\ split_src = << >>

AwaitTextEvent(u) ==
    /\ Idle
    /\ \E text \in Texts \ {SPLIT_PDF} :
        \E fail \in 0..MaxSteps(text_handler(rev, user_sessions, workspaces, u, text, 0)) :
            Handled("text", u, text, << >>,
                    text_handler(rev, user_sessions, workspaces, u, text, fail))

AwaitNext ==
    \/ \E u \in Users :
        \/ StartEvent(u)
        \/ AwaitTextEvent(u)
        \/ PhotoEvent(u)
        \/ DocumentEvent(u)
    \/ NextUpdate

SpecAwait == AwaitInit /\ [][AwaitNext]_vars

--------------------------------------------------------------------------
(* The properties.  They are stated over the states in which a handler
   invocation has just ended (~Idle): `last` is that invocation, Pre the
   session it obtained from ensure_user_session on entry, Post the session
   the next handler will obtain from ensure_user_session. *)

Pre == last.pre
Post == ensure_user_session(user_sessions, last.user)[last.user]

\* the steps of the invocation that completed
Completed == Done(last.steps, last.fail)

\* the handler ran to its end: no step raised
Succeeded == last.fail = 0

SessionFields == {"images", "pdfs", "collecting_images", "collecting_pdfs"}
SameFields(s, t) == \A k \in SessionFields : s[k] = t[k]

\* the split of pdf into one single-page PDF per page, in page order
SinglePages(pdf) == [i \in 1..Len(pdf) |-> <<pdf[i]>>]

\* the number of pages of the entries of pdfs before entry j
RECURSIVE PagesBefore(_, _)
PagesBefore(pdfs, j) ==
    IF j = 1 THEN 0 ELSE PagesBefore(pdfs, j - 1) + Len(pdfs[j - 1])

\* the collaborator steps: download, transform, archive upload, delivery
Collaborator == {"download", "transform", "archive", "deliver"}

--------------------------------------------------------------------------
\* C1: in both revisions, after a Cancel text event from user u, whatever the
\* session was before, the session the next handler obtains for u through
\* ensure_user_session has images empty, pdfs empty, collecting_images false,
\* collecting_pdfs false and no awaiting_split_ranges.
C1_CancelYieldsDefaults ==
    last.op = "Cancel" =>
        /\ Post["images"] = << >>
        /\ Post["pdfs"] = << >>
        /\ Post["collecting_images"] = FALSE
        /\ Post["collecting_pdfs"] = FALSE
        /\ "awaiting_split_ranges" \notin DOMAIN Post

\* a Cancel in main.py whose reply raised, on a session that held images and
\* PDFs, was collecting images and was awaiting split ranges
C1_Witness ==
    /\ rev = "main"
    /\ last.op = "Cancel"
    /\ last.fail = 1
    /\ Pre["images"] # << >>
    /\ Pre["pdfs"] # << >>
    /\ Pre["collecting_images"]
    /\ "awaiting_split_ranges" \in DOMAIN Pre
    /\ Post["images"] = << >>

\* C2: in both revisions, if a collaborator step of Create PDF, Merge PDFs or
\* Split PDF fails (a download, the transform, the upload to the archive
\* channel, the delivery to the user), then when the handler exits images,
\* pdfs, collecting_images and collecting_pdfs equal their values before the
\* event.
C2_FailureLeavesSession ==
    (/\ last.op \in {"Create PDF", "Merge PDFs", "Split PDF", "split ranges"}
     /\ last.fail # 0
     /\ last.steps[last.fail][1] \in Collaborator)
    => SameFields(Post, Pre)

\* C3: in both revisions every temp directory an operation created has been
\* removed when that handler invocation exits, on normal return and on the
\* failure of any step after the creation: when no handler is executing no
\* workspace exists.
C3_NoWorkspaceLeft == workspaces = {}

\* a reply of ranges whose step after mkdtemp raised
C3_Witness ==
    /\ last.op = "split ranges"
    /\ last.fail # 0
    /\ Did(Completed, "mkdtemp")
    /\ workspaces = {}

\* C4: in both revisions a photo event that arrives while collecting_images
\* is false is dropped: the user gets a guidance reply and images, pdfs and
\* both collecting flags are unchanged; a reference is appended to images only
\* when collecting_images was true on arrival.
C4_PhotoDroppedUnlessCollecting ==
    /\ (last.op = "photo" /\ ~Pre["collecting_images"]) =>
          /\ SameFields(Post, Pre)
          /\ Succeeded => last.replies = << <<"warning", << >> >> >>
    /\ (last.op = "photo" /\ Post["images"] # Pre["images"]) =>
          Pre["collecting_images"]

\* C5: in both revisions a PDF-typed document event is accepted in every
\* session state: after the handler the stored reference is the last element
\* of pdfs and collecting_pdfs is false.
C5_PdfDocumentAccepted ==
    (last.op = "pdf document" /\ Succeeded) =>
        /\ Post["pdfs"] # << >>
        /\ Last(Post["pdfs"]) = last.doc[2]
        /\ Post["collecting_pdfs"] = FALSE

\* C6: in both revisions, after a successful Create PDF on a session with
\* non-empty images, pdfs is exactly the one-element list holding the new
\* artifact, images is empty and collecting_images is false.
C6_CreateReplacesPdfs ==
    (last.op = "Create PDF" /\ Succeeded /\ Pre["images"] # << >>) =>
        /\ Len(last.made) = 1
        /\ Post["pdfs"] = last.made
        /\ Post["images"] = << >>
        /\ Post["collecting_images"] = FALSE

\* the event accepted an image: a photo or an image document was stored
Accepting == last.op \in {"photo", "image document"} /\ Did(Completed, "commit")

\* C7: for every sequence of N >= 1 accepted images followed by Create PDF,
\* the artifact has exactly N pages and page i is the i-th accepted image:
\* accepting an image appends it to images, nothing else changes images but
\* to empty it, and Create PDF draws images in list order, one page each.
C7_PagesInAcceptanceOrder ==
    /\ Accepting => Post["images"] = Append(Pre["images"], last.doc[2])
    /\ (~Idle /\ ~Accepting) => Post["images"] \in {Pre["images"], << >>}
    /\ (last.op = "Create PDF" /\ Did(Completed, "transform")) =>
          /\ Len(Pre["images"]) >= 1
          /\ Len(last.made) = 1
          /\ Len(last.made[1]) = Len(Pre["images"])
          /\ \A i \in 1..Len(Pre["images"]) :
                last.made[1][i] = <<"img", Pre["images"][i], 1>>

\* a Create PDF on the images a then b, accepted in that order
C7_Witness ==
    /\ last.op = "Create PDF"
    /\ Succeeded
    /\ Pre["images"] = <<"a", "b">>
    /\ last.made = << << <<"img", "a", 1>>, <<"img", "b", 1>> >> >>

\* C8, as stated: in both revisions Split PDF on a session whose last pdfs
\* entry has K pages produces exactly K single-page artifacts, artifact i
\* holding page i, and on success pdfs becomes that ordered list.
C8_SplitPDFMakesSinglePages ==
    (last.op = "Split PDF" /\ Succeeded /\ Pre["pdfs"] # << >>) =>
        /\ last.made = SinglePages(Last(Pre["pdfs"]))
        /\ Post["pdfs"] = last.made

\* main.py: the reply of the ranges 1-1,...,K-K to the prompt, the current
\* PDF having K >= 1 pages
SinglePagesReply ==
    /\ rev = "main"
    /\ last.op = "split ranges"
    /\ Len(Last(Pre["pdfs"])) >= 1
    /\ last.text = SinglePagesText(Len(Last(Pre["pdfs"])))

\* C8, amended: in bot.py Split PDF on a session whose last pdfs entry has K
\* pages produces exactly K single-page artifacts, artifact i holding page i,
\* and on success pdfs becomes that ordered list.  In main.py Split PDF
\* produces no artifact and leaves pdfs as it is: it prompts for ranges, and
\* the reply 1-1,...,K-K to the prompt produces those K artifacts and on
\* success stores that list.
C8_SplitMakesSinglePages ==
    /\ (rev = "bot" /\ last.op = "Split PDF" /\ Did(Completed, "transform")) =>
          /\ last.made = SinglePages(Last(Pre["pdfs"]))
          /\ Succeeded => Post["pdfs"] = last.made
    /\ (rev = "main" /\ last.op = "Split PDF") =>
          /\ last.made = << >>
          /\ Post["pdfs"] = Pre["pdfs"]
    /\ (SinglePagesReply /\ Did(Completed, "transform")) =>
          /\ last.made = SinglePages(Last(Pre["pdfs"]))
          /\ Succeeded => Post["pdfs"] = last.made

\* main.py: the reply 1-1,2-2 on a two-page PDF stored two single pages
C8_Witness ==
    /\ SinglePagesReply
    /\ Succeeded
    /\ Len(Last(Pre["pdfs"])) = 2
    /\ Len(Post["pdfs"]) = 2
    /\ Post["pdfs"][1] # Post["pdfs"][2]

\* the event before `last` was a split command on a PDF of K >= 1 pages and
\* `last` is a Merge PDFs that ran to its end
MergeAfterSplit ==
    /\ last.op = "Merge PDFs"
    /\ Succeeded
    /\ split_src # << >>
    /\ Len(split_src[3]) >= 1

\* C9, as stated: for every K >= 1, Split PDF on a K-page current PDF followed
\* immediately by Merge PDFs leaves pdfs holding a single artifact whose page
\* sequence is the original PDF's.
C9_SplitPDFThenMerge ==
    (MergeAfterSplit /\ split_src[1] = "Split PDF") =>
        Post["pdfs"] = <<split_src[3]>>

\* C9, amended: for every K >= 1, in bot.py Split PDF on a K-page current PDF
\* followed immediately by Merge PDFs, and in main.py the reply 1-1,...,K-K
\* to the Split PDF prompt on a K-page current PDF followed immediately by
\* Merge PDFs, leaves pdfs holding a single artifact whose page sequence is
\* the original PDF's.
C9_RoundTrip ==
    (/\ MergeAfterSplit
     /\ \/ rev = "bot"
        \/ /\ split_src[1] = "split ranges"
           /\ split_src[2] = SinglePagesText(Len(split_src[3])))
    => Post["pdfs"] = <<split_src[3]>>

\* main.py: a two-page PDF split by 1-1,2-2 and merged again
C9_Witness ==
    /\ rev = "main"
    /\ MergeAfterSplit
    /\ split_src[1] = "split ranges"
    /\ split_src[2] = SinglePagesText(2)
    /\ Len(split_src[3]) = 2
    /\ Len(Pre["pdfs"]) = 2
    /\ Post["pdfs"] = <<split_src[3]>>

\* C10: in both revisions a successful Merge PDFs on pdfs = [A, B, ...]
\* produces one artifact whose pages are the pages of each entry in list
\* order (a+b pages for two entries, A's before B's), and pdfs becomes the
\* one-element list holding that artifact.
C10_MergeConcatenates ==
    (last.op = "Merge PDFs" /\ Did(Completed, "transform")) =>
        /\ Len(last.made) = 1
        /\ Len(last.made[1]) = PagesBefore(Pre["pdfs"], Len(Pre["pdfs"]) + 1)
        /\ \A j \in 1..Len(Pre["pdfs"]) : \A i \in 1..Len(Pre["pdfs"][j]) :
              last.made[1][PagesBefore(Pre["pdfs"], j) + i] = Pre["pdfs"][j][i]
        /\ Succeeded => Post["pdfs"] = last.made

\* a merge of a two-page PDF and a one-page PDF
C10_Witness ==
    /\ last.op = "Merge PDFs"
    /\ Succeeded
    /\ Len(Pre["pdfs"]) = 2
    /\ Len(Pre["pdfs"][1]) = 2
    /\ Len(Pre["pdfs"][2]) = 1
    /\ Len(Post["pdfs"]) = 1
    /\ Len(Post["pdfs"][1]) = 3

\* the text the revision extracts from the PDF that Extract Text works on
ExtractedText ==
    IF rev = "bot" THEN bot_extract_text_from_pdf(Last(Pre["pdfs"]))
    ELSE main_extract_text_from_pdf(Last(Pre["pdfs"]))

\* the messages of extracted text among replies, in delivery order
RECURSIVE TextMessages(_)
TextMessages(replies) ==
    IF replies = << >> THEN << >>
    ELSE (IF Head(replies)[1] = "text" THEN <<Head(replies)[2]>> ELSE << >>)
         \o TextMessages(Tail(replies))

RECURSIVE Joined(_)
Joined(messages) ==
    IF messages = << >> THEN << >> ELSE Head(messages) \o Joined(Tail(messages))

\* Extract Text ran to its end on a PDF whose extracted text is not blank
ExtractedNonBlank ==
    /\ last.op = "Extract Text"
    /\ Succeeded
    /\ Pre["pdfs"] # << >>
    /\ ~IsBlank(ExtractedText)

\* C11: in both revisions, for Extract Text on a PDF with non-blank extracted
\* text of any length, every delivered message of text is at most 4000
\* characters long and the delivered messages, concatenated in delivery
\* order, are the full extracted text.
C11_MessagesCarryAllText ==
    ExtractedNonBlank =>
        /\ \A i \in 1..Len(TextMessages(last.replies)) :
              Len(TextMessages(last.replies)[i]) <= CHUNK
        /\ Joined(TextMessages(last.replies)) = ExtractedText

\* the same property of main.py alone
C11_MainMessagesCarryAllText == rev = "main" => C11_MessagesCarryAllText

\* the same property of bot.py but for the heading: the one message, less its
\* heading, is the full extracted text
C11_BotMessageCarriesAllText ==
    (rev = "bot" /\ ExtractedNonBlank) =>
        /\ Len(TextMessages(last.replies)) = 1
        /\ TextMessages(last.replies)[1] = EXTRACTED_TEXT \o ExtractedText

\* the operation asked for has nothing to work on: Create PDF with no image,
\* an operation on PDFs with none (bot.py's Merge PDFs: with fewer than two)
PreconditionUnmet ==
    \/ last.op = "Create PDF" /\ Pre["images"] = << >>
    \/ last.op \in {"Split PDF", "Extract Text", "PDF -> Word"} /\ Pre["pdfs"] = << >>
    \/ last.op = "Merge PDFs" /\ Pre["pdfs"] = << >>
    \/ last.op = "Merge PDFs" /\ rev = "bot" /\ Len(Pre["pdfs"]) < 2

\* C12: in both revisions, when the precondition of Create PDF, Merge PDFs,
\* Split PDF, Extract Text or PDF -> Word is unmet, the handler's one step is
\* the warning reply (so the user is sent the warning unless that reply
\* raises), no temp directory is made, and images, pdfs and both collection
\* flags are what they were before the event.
C12_UnmetPreconditionWarns ==
    PreconditionUnmet =>
        /\ last.steps = <<Reply("warning")>>
        /\ Succeeded => last.replies = << <<"warning", << >> >> >>
        /\ ~Did(last.steps, "mkdtemp")
        /\ workspaces = {}
        /\ SameFields(Post, Pre)

\* main.py's Split PDF on a session with images collected and no PDF
C12_Witness ==
    /\ rev = "main"
    /\ last.op = "Split PDF"
    /\ Succeeded
    /\ Pre["pdfs"] = << >>
    /\ Pre["images"] # << >>
    /\ Pre["collecting_images"]
    /\ last.replies = << <<"warning", << >> >> >>
    /\ Post["images"] = Pre["images"]
    /\ Post["collecting_images"]

\* a collaborator step raised inside an operation of text_handler
OperationFailed ==
    /\ last.handler = "text"
    /\ last.op \in {"Create PDF", "Merge PDFs", "Split PDF", "split ranges",
                    "Extract Text", "PDF -> Word"}
    /\ last.fail # 0
    /\ last.steps[last.fail][1] \in Collaborator

\* C13: in both revisions, when a collaborator step raises inside Create PDF,
\* Merge PDFs, Split PDF, Extract Text or PDF -> Word, the handler catches the
\* failure and sends the user a failure reply: no exception leaves the handler.
C13_FailureCaughtAndReported ==
    OperationFailed =>
        /\ ~last.raised
        /\ \E i \in 1..Len(last.replies) : last.replies[i][1] = "failed"

\* what the code does instead: the exception leaves the handler and the user
\* is sent nothing after the step that raised
C13_FailurePropagates ==
    OperationFailed =>
        /\ last.raised
        /\ last.replies = Replies(Completed)
        /\ \A i \in 1..Len(last.replies) : last.replies[i][1] # "failed"

\* C14: in both revisions, Extract Text and PDF -> Word, whether they succeed
\* or a step of theirs raises, leave images, pdfs, collecting_images and
\* collecting_pdfs as they were before the handler.
C14_ReadOnlyOperations ==
    last.op \in {"Extract Text", "PDF -> Word"} => SameFields(Post, Pre)

\* a PDF -> Word in bot.py whose delivery raised, on a session that holds an
\* image and a PDF and is collecting images
C14_Witness ==
    /\ rev = "bot"
    /\ last.op = "PDF -> Word"
    /\ last.fail # 0
    /\ last.steps[last.fail][1] = "deliver"
    /\ Pre["images"] # << >>
    /\ Pre["pdfs"] # << >>
    /\ Pre["collecting_images"]
    /\ Post["pdfs"] = Pre["pdfs"]
    /\ Post["images"] = Pre["images"]

\* C15: in both revisions, after the Add Image menu event collecting_images
\* is true and images is empty, whatever images held before.
C15_AddImageClearsImages ==
    last.op = "Add Image" =>
        /\ Post["collecting_images"]
        /\ Post["images"] = << >>

\* C15, amended: in both revisions, after the Add Image menu event
\* collecting_images is true and images is what it was before the event.
C15_AddImageKeepsImages ==
    last.op = "Add Image" =>
        /\ Post["collecting_images"]
        /\ Post["images"] = Pre["images"]

\* Add Image in bot.py on a session that holds two images
C15_Witness ==
    /\ rev = "bot"
    /\ last.op = "Add Image"
    /\ Len(Pre["images"]) = 2
    /\ Post["collecting_images"]
    /\ Post["images"] = Pre["images"]

\* C16: in both revisions, after the Add PDF menu event collecting_pdfs is
\* true and images, pdfs and collecting_images are what they were before it.
C16_AddPDFSetsFlagOnly ==
    last.op = "Add PDF" =>
        /\ Post["collecting_pdfs"]
        /\ Post["images"] = Pre["images"]
        /\ Post["pdfs"] = Pre["pdfs"]
        /\ Post["collecting_images"] = Pre["collecting_images"]

\* the same property of main.py alone
C16_MainAddPDFSetsFlagOnly == rev = "main" => C16_AddPDFSetsFlagOnly

\* an upload: a photo, an image sent as a document, a PDF sent as a document
Upload == last.op \in {"photo", "image document", "pdf document"}

\* C17: in both revisions, an upload handler stores a reference in images or
\* pdfs only after the transfer of that attachment to the archive channel has
\* succeeded; when the transfer has not succeeded (it raised, or was never
\* made), images and pdfs are what they were before the event.
C17_StoredOnlyAfterArchive ==
    Upload =>
        /\ Did(Completed, "commit") =>
              /\ Did(Completed, "archive")
              /\ last.archived = <<last.doc[2]>>
        /\ ~Did(Completed, "archive") =>
              /\ Post["images"] = Pre["images"]
              /\ Post["pdfs"] = Pre["pdfs"]

\* a photo in main.py, on a session collecting images that holds one, whose
\* transfer to the archive channel raised
C17_Witness ==
    /\ rev = "main"
    /\ last.op = "photo"
    /\ Pre["collecting_images"]
    /\ Len(Pre["images"]) = 1
    /\ last.fail # 0
    /\ last.steps[last.fail][1] = "archive"
    /\ last.raised
    /\ Post["images"] = Pre["images"]

\* C18: in both revisions, a document whose declared content type is neither
\* PDF nor JPEG/PNG gets a rejection reply (unless sending that reply raises)
\* and leaves images, pdfs and both collection flags as they were.
C18_OtherDocumentRejected ==
    last.op = "other document" =>
        /\ Succeeded => \E i \in 1..Len(last.replies) : last.replies[i][1] = "unsupported"
        /\ SameFields(Post, Pre)

\* the same property of main.py alone
C18_MainOtherDocumentRejected == rev = "main" => C18_OtherDocumentRejected

\* what bot.py does instead: no reply at all, and the session as it was
C18_BotOtherDocumentIgnored ==
    (rev = "bot" /\ last.op = "other document") =>
        /\ last.steps = << >>
        /\ last.replies = << >>
        /\ SameFields(Post, Pre)

\* the record of a user on first contact
DefaultSession ==
    [images |-> << >>, pdfs |-> << >>,
     collecting_images |-> FALSE, collecting_pdfs |-> FALSE]

\* C19: whatever the store holds, ensure_user_session(u) leaves u with a
\* record that has the four fields; a record that exists keeps every value it
\* has (a field it lacks gets its default); a user with no record gets the
\* default record; the records of other users are untouched; and a second
\* call changes nothing.  The call is one step of the handler that makes it.
C19_EnsureOrCreate ==
    \A u \in Users :
        LET ensured == ensure_user_session(user_sessions, u)
        IN  /\ DOMAIN ensured = DOMAIN user_sessions \cup {u}
            /\ SessionFields \subseteq DOMAIN ensured[u]
            /\ u \in DOMAIN user_sessions =>
                  /\ \A k \in DOMAIN user_sessions[u] : ensured[u][k] = user_sessions[u][k]
                  /\ \A k \in DOMAIN ensured[u] \ DOMAIN user_sessions[u] :
                        ensured[u][k] = DefaultSession[k]
            /\ u \notin DOMAIN user_sessions => ensured[u] = DefaultSession
            /\ \A v \in DOMAIN user_sessions \ {u} : ensured[v] = user_sessions[v]
            /\ ensure_user_session(ensured, u) = ensured

\* main.py after a handler for a user whose record holds an image and a PDF,
\* collects images and awaits split ranges: ensure_user_session returns it as is
C19_Witness ==
    /\ rev = "main"
    /\ ~Idle
    /\ last.user \in DOMAIN user_sessions
    /\ user_sessions[last.user]["images"] # << >>
    /\ user_sessions[last.user]["pdfs"] # << >>
    /\ user_sessions[last.user]["collecting_images"]
    /\ "awaiting_split_ranges" \in DOMAIN user_sessions[last.user]
    /\ ensure_user_session(user_sessions, last.user) = user_sessions

\* main.py awaited split ranges and got a text with "-" that does not parse
\* as comma-separated start-end pairs of integers
MalformedRanges ==
    /\ rev = "main"
    /\ last.op = "split ranges"
    /\ "awaiting_split_ranges" \in DOMAIN Pre
    /\ ~RangesOk(last.text)

\* C20: in main.py, when the session awaits split ranges and the reply text
\* contains "-" and does not parse, the handler replies with the corrective
\* prompt (unless that reply raises) and the session record is what it was:
\* images, pdfs, both collection flags and awaiting_split_ranges.
C20_MalformedRangesChangeNothing ==
    MalformedRanges =>
        /\ last.steps = <<Reply("invalid")>>
        /\ Succeeded => last.replies = << <<"invalid", << >> >> >>
        /\ SameFields(Post, Pre)
        /\ "awaiting_split_ranges" \in DOMAIN Post
        /\ Post["awaiting_split_ranges"] = Pre["awaiting_split_ranges"]

\* what main.py does instead: the prompt is sent and the four fields are kept,
\* and awaiting_split_ranges is gone from the record
C20_MalformedRangesEndAwaiting ==
    MalformedRanges =>
        /\ last.steps = <<Reply("invalid")>>
        /\ SameFields(Post, Pre)
        /\ "awaiting_split_ranges" \notin DOMAIN Post

\* the handler of bot.py that just ended was Split PDF and it assigned pdfs
BotSplitAssigned ==
    last.op = "Split PDF" /\ Did(Completed, "commit")

\* C21: in bot.py, pdfs is empty at the start, and a handler that leaves two
\* or more entries in pdfs is either a Split PDF that assigned them or left
\* pdfs as it found it: so in every reachable state pdfs holds two or more
\* entries only if the last operation that assigned it was Split PDF, and
\* every other operation leaves at most one.  A Merge PDFs that merges
\* therefore works on the single pages of one split, never on two uploads.
C21_TwoPdfsOnlyFromSplit ==
    rev = "bot" =>
        /\ Idle => \A u \in DOMAIN user_sessions : Len(Pdfs(user_sessions[u])) >= 2 =>
                      \A i \in 1..Len(Pdfs(user_sessions[u])) :
                          Len(Pdfs(user_sessions[u])[i]) = 1
        /\ (~Idle /\ Len(Post["pdfs"]) >= 2) =>
              \/ BotSplitAssigned /\ Post["pdfs"] = SinglePages(Last(Pre["pdfs"]))
              \/ Post["pdfs"] = Pre["pdfs"]
        /\ (~Idle /\ ~BotSplitAssigned /\ Post["pdfs"] # Pre["pdfs"]) =>
              Len(Post["pdfs"]) <= 1
        /\ (last.op = "Merge PDFs" /\ Did(Completed, "transform")) =>
              /\ Len(Pre["pdfs"]) >= 2
              /\ \A i \in 1..Len(Pre["pdfs"]) :
                    /\ Len(Pre["pdfs"][i]) = 1
                    /\ \A d \in DocIds : Pre["pdfs"][i] # DocPdf(d)

\* bot.py merging the two single pages that a Split PDF of an uploaded
\* two-page PDF left, after an event in between that did not touch pdfs
C21_Witness ==
    /\ rev = "bot"
    /\ last.op = "Merge PDFs"
    /\ Succeeded
    /\ split_src = << >>
    /\ Len(Pre["pdfs"]) = 2
    /\ \E d \in DocIds : Pre["pdfs"] = SinglePages(DocPdf(d))
    /\ Len(Post["pdfs"]) = 1

\* the session awaits split ranges: session.get("awaiting_split_ranges")
Awaiting(session) ==
    "awaiting_split_ranges" \in DOMAIN session /\ session["awaiting_split_ranges"] = TRUE

\* C22: in main.py, in every reachable state a session that awaits split
\* ranges holds at least one PDF, and a reply of ranges is handled on a
\* session that holds one: session["pdfs"][-1] is there to be read.
C22_AwaitingHasPdf ==
    rev = "main" =>
        /\ \A u \in DOMAIN user_sessions :
              Awaiting(user_sessions[u]) => Pdfs(user_sessions[u]) # << >>
        /\ last.op = "split ranges" => (Awaiting(Pre) /\ Pre["pdfs"] # << >>)

\* main.py downloading the last of two PDFs for a reply of ranges, the
\* session having awaited the ranges across the upload of the second PDF
C22_Witness ==
    /\ rev = "main"
    /\ last.op = "split ranges"
    /\ RangesOk(last.text)
    /\ Did(Completed, "download")
    /\ Awaiting(Pre)
    /\ Len(Pre["pdfs"]) = 2
    /\ ~Awaiting(Post)

\* the step is the handling of an update, and v is not the user it came from
HandledForAnother(v) == Idle /\ ~Idle' /\ last'.user # v

\* C23: in both revisions, handling an event from user u leaves the record
\* of every other user v as it was, and neither creates nor removes v's entry
\* in user_sessions.
C23_OtherUsersUntouched ==
    [][\A v \in TwoUsers :
          HandledForAnother(v) =>
              /\ (v \in DOMAIN user_sessions') <=> (v \in DOMAIN user_sessions)
              /\ v \in DOMAIN user_sessions => user_sessions'[v] = user_sessions[v]]_vars

\* main.py after a Cancel from one user, who held a PDF, while the other
\* user's record holds an image and a PDF and is collecting images
C23_Witness ==
    /\ rev = "main"
    /\ last.op = "Cancel"
    /\ Pre["pdfs"] # << >>
    /\ last.user \notin DOMAIN user_sessions
    /\ \E v \in TwoUsers \ {last.user} :
          /\ v \in DOMAIN user_sessions
          /\ user_sessions[v]["images"] # << >>
          /\ user_sessions[v]["pdfs"] # << >>
          /\ user_sessions[v]["collecting_images"]

\* the events that end the wait for ranges: Cancel, and a text with "-" that
\* is no button text (it is taken as the reply of ranges)
EndsAwaiting == last.op \in {"Cancel", "split ranges"}

\* C24: in main.py, a session that awaits split ranges still awaits them
\* after any event but Cancel and a reply of ranges (whether the event ran
\* to its end or raised), and those two end the wait; a reply of ranges
\* that parses splits the PDF that is last in pdfs when the reply is handled.
C24_AwaitingPersists ==
    rev = "main" =>
        /\ (~Idle /\ Awaiting(Pre) /\ ~EndsAwaiting) => Awaiting(Post)
        /\ (Awaiting(Pre) /\ EndsAwaiting) => ~Awaiting(Post)
        /\ last.op = "split ranges" => Awaiting(Pre)
        /\ (last.op = "split ranges" /\ Did(Completed, "transform")) =>
              last.made = main_split_pdf(Last(Pre["pdfs"]), ParseRanges(last.text))

\* a reply "1-1" handled when pdfs holds the PDF of the press and, after it,
\* a PDF created from an image since: the page split off is the image's
C24_Witness ==
    /\ last.op = "split ranges"
    /\ Succeeded
    /\ last.text = RangeText(1, 1)
    /\ Len(Pre["pdfs"]) = 2
    /\ Pre["pdfs"][1] = PressedPdf
    /\ Last(Pre["pdfs"]) # PressedPdf
    /\ last.made = << <<Last(Pre["pdfs"])[1]>> >>
    /\ last.made # << <<PressedPdf[1]>> >>
    /\ Post["pdfs"] = last.made

==========================================================================
